---- MODULE Spec2Model ----
(***************************************************************************)
(* Model of pinbot/callbacks.py: the Callbacks object of the pin bot.      *)
(*                                                                         *)
(* State: the two fields of Callbacks that change (synced, pinned), the    *)
(* suspended invocations of Callbacks._reaction (a coroutine is suspended  *)
(* at "await room_get_event" or at "await room_send"), and what the nio    *)
(* client has been asked to do (fetches, sends) and has answered.          *)
(*                                                                         *)
(* A coroutine runs without interruption from one await to the next, so    *)
(* one action is one such segment of a handler.                            *)
(***************************************************************************)
EXTENDS Naturals, Integers, Sequences, FiniteSets, Bags, TLC

(* ---- bounds of the model ---- *)
MaxDeliveries == 4      \* unknown events delivered in one run
MaxInFlight == 2        \* handler invocations of one kind suspended at the same time
MaxInvites == 3         \* invites delivered in one run
MaxStream == 3          \* length of the observed event stream
MaxBodyLen == 3         \* characters in the body of an original message

(* ---- configuration values and the environment ---- *)
None == "None"
PinsRoom == "!pins"                 \* config.pins_room
UserId == "@pinbot"                 \* config.user_id
PinGlyph == "pin"                   \* the pin emoji literal
Rooms == {PinsRoom, "!R3"}
Events == {"$E1", "$E2", "$E3"}
\* sender of each event of the event store (an event's sender never changes)
Author == [e \in Events |-> IF e = "$E3" THEN UserId ELSE "@U1"]

\* the shapes of event.type and event.source["content"]["m.relates_to"]
RawEvents ==
  [type : {"m.reaction", "m.room.other"},
   event_id : Events \cup {None},
   rel_type : {"m.annotation", "m.replace", None},
   key : {PinGlyph, "thumbsup", None}]

FetchResponses == {"RoomGetEventError", "MegolmEvent", "Event"}
SendResponses == {"RoomSendResponse", "RoomSendError"}

VARIABLES
  synced,      \* self.synced
  pinned,      \* self.pinned
  tasks,       \* bag of suspended _reaction invocations
  sent,        \* room_send calls made, in order
  fetchCalls,  \* number of room_get_event calls made
  acked,       \* event ids with a room_send answered by RoomSendResponse
  failed,      \* event ids with a room_send answered by RoomSendError
  delivered,   \* number of unknown events delivered
  dropped,     \* number of reactions returned from at the sync gate
  lastReturn,  \* the return most recently taken by a handler invocation
  invs,        \* bag of suspended invite invocations
  invited,     \* number of invites delivered
  lastInvite,  \* what the invite invocation that returned last has done
  abandoned,   \* rooms for which an invite ended with all attempts failed
  original,    \* the fetched event handed to the composition of the record
  record,      \* the body and formatted_body composed for it
  stream,      \* number of stream events dispatched under observation
  observed     \* the input handled last under observation

reactionVars == <<synced, pinned, tasks, sent, fetchCalls, acked, failed,
                  delivered, dropped, lastReturn>>

inviteVars == <<invs, invited, lastInvite, abandoned>>

composeVars == <<original, record>>

streamVars == <<stream, observed>>

vars == <<synced, pinned, tasks, sent, fetchCalls, acked, failed,
          delivered, dropped, lastReturn, invs, invited, lastInvite,
          abandoned, original, record, stream, observed>>

Task(pc, room, ev, reacted_to) ==
  [pc |-> pc, room |-> room, target |-> reacted_to, key |-> ev.key]

Return(reason, target, key, fetched) ==
  [reason |-> reason, target |-> target, key |-> key, fetched |-> fetched]

InviteDone(room, joins, pauses, fails, ok, unable, joined) ==
  [room |-> room, joins |-> joins, pauses |-> pauses, fails |-> fails,
   ok |-> ok, unable |-> unable, joined |-> joined]

NoEvent == [type |-> None, event_id |-> None, rel_type |-> None, key |-> None]

Obs(kind, room, ev, resp) == [kind |-> kind, room |-> room, ev |-> ev, resp |-> resp]

\* strings are sequences of characters; a literal of the source that holds
\* no user content is one element
NoMessage ==
  [sender |-> <<"@">>, body |-> <<>>, has_formatted |-> FALSE,
   formatted_body |-> <<>>]

NoRecord == [done |-> FALSE, body |-> <<>>, formatted_body |-> <<>>]

InitHandlers ==
  /\ synced = FALSE
  /\ pinned = {}
  /\ tasks = EmptyBag
  /\ sent = <<>>
  /\ fetchCalls = 0
  /\ acked = {}
  /\ failed = {}
  /\ delivered = 0
  /\ dropped = 0
  /\ lastReturn = Return("none", None, None, FALSE)
  /\ invs = EmptyBag
  /\ invited = 0
  /\ lastInvite = InviteDone(None, 0, 0, 0, FALSE, FALSE, FALSE)
  /\ abandoned = {}
  /\ stream = 0
  /\ observed = Obs("none", None, NoEvent, None)

Init ==
  /\ InitHandlers
  /\ original = NoMessage
  /\ record = NoRecord

(* ---- Callbacks.sync ---- *)
sync_Toggle ==
  /\ synced' = ~synced
  /\ UNCHANGED <<pinned, tasks, sent, fetchCalls, acked, failed,
                 delivered, dropped, lastReturn>>
  /\ UNCHANGED <<inviteVars, composeVars>>

sync ==
  /\ synced' = TRUE
  /\ UNCHANGED <<pinned, tasks, sent, fetchCalls, acked, failed,
                 delivered, dropped, lastReturn>>
  /\ UNCHANGED <<inviteVars, composeVars>>

(* ---- Callbacks.unknown: the classifier ---- *)
\* the condition under which unknown() calls _reaction
IsReaction_AnyRelType(ev) ==
  /\ ev.type = "m.reaction"
  /\ ev.event_id # None

IsReaction(ev) ==
  /\ ev.type = "m.reaction"
  /\ ev.event_id # None
  /\ ev.rel_type = "m.annotation"

(* ---- Callbacks._reaction, from entry to the first await ---- *)
PreFetch_NoGate(room, ev) ==
  IF room = PinsRoom THEN "pinroom" ELSE "fetch"

PreFetch_NoRoomCheck(room, ev) ==
  IF ~synced THEN "presync" ELSE "fetch"

PreFetch_EmojiFirst(room, ev) ==
  IF ~synced THEN "presync"
  ELSE IF room = PinsRoom THEN "pinroom"
  ELSE IF ev.key # PinGlyph THEN "emoji"
  ELSE IF ev.event_id \in pinned THEN "dup"
  ELSE "fetch"

PreFetch(room, ev) ==
  IF ~synced THEN "presync"
  ELSE IF room = PinsRoom THEN "pinroom"
  ELSE "fetch"

\* unknown(room, event), run up to its return or to the await of
\* room_get_event inside _reaction
unknown(room, ev) ==
  /\ delivered < MaxDeliveries
  /\ delivered' = delivered + 1
  /\ IF ~IsReaction(ev)
     THEN /\ lastReturn' = Return("unknown", None, None, FALSE)
          /\ UNCHANGED <<tasks, fetchCalls, dropped>>
     ELSE LET step == PreFetch(room, ev) IN
          IF step = "fetch"
          THEN /\ tasks' = tasks (+) SetToBag({Task("fetch", room, ev, ev.event_id)})
               /\ fetchCalls' = fetchCalls + 1
               /\ UNCHANGED <<dropped, lastReturn>>
          ELSE /\ lastReturn' = Return(step, ev.event_id, ev.key, FALSE)
               /\ dropped' = IF step = "presync" THEN dropped + 1 ELSE dropped
               /\ UNCHANGED <<tasks, fetchCalls>>
  /\ UNCHANGED <<synced, pinned, sent, acked, failed>>
  /\ UNCHANGED <<inviteVars, composeVars>>

(* ---- Callbacks._reaction, from the answer of room_get_event on ---- *)
PostFetch_NoSelfCheck(t, resp) ==
  IF resp = "RoomGetEventError" THEN "fetcherr"
  ELSE IF resp = "MegolmEvent" THEN "megolm"
  ELSE IF t.key # PinGlyph THEN "emoji"
  ELSE IF t.target \in pinned THEN "dup"
  ELSE "send"

PostFetch_NoEmojiCheck(t, resp) ==
  IF resp = "RoomGetEventError" THEN "fetcherr"
  ELSE IF resp = "MegolmEvent" THEN "megolm"
  ELSE IF Author[t.target] = UserId THEN "self"
  ELSE IF t.target \in pinned THEN "dup"
  ELSE "send"

PostFetch_NoDedup(t, resp) ==
  IF resp = "RoomGetEventError" THEN "fetcherr"
  ELSE IF resp = "MegolmEvent" THEN "megolm"
  ELSE IF Author[t.target] = UserId THEN "self"
  ELSE IF t.key # PinGlyph THEN "emoji"
  ELSE "send"

PostFetch_MegolmAsEvent(t, resp) ==
  IF resp = "RoomGetEventError" THEN "fetcherr"
  ELSE IF Author[t.target] = UserId THEN "self"
  ELSE IF t.key # PinGlyph THEN "emoji"
  ELSE IF t.target \in pinned THEN "dup"
  ELSE "send"

PostFetch(t, resp) ==
  IF resp = "RoomGetEventError" THEN "fetcherr"
  ELSE IF resp = "MegolmEvent" THEN "megolm"
  ELSE IF Author[t.target] = UserId THEN "self"
  ELSE IF t.key # PinGlyph THEN "emoji"
  ELSE IF t.target \in pinned THEN "dup"
  ELSE "send"

\* the room the archive record is addressed to
SendRoom_ReactionRoom(t) == t.room

SendRoom(t) == PinsRoom

\* the room_send call: destination, the two slugs of the link, the sender
Message(t) ==
  [room_id |-> SendRoom(t), room_slug |-> t.room, event_slug |-> t.target,
   sender |-> Author[t.target]]

reaction_fetched(t, resp) ==
  /\ BagIn(t, tasks)
  /\ t.pc = "fetch"
  /\ LET step == PostFetch(t, resp) IN
     IF step = "send"
     THEN /\ tasks' = (tasks (-) SetToBag({t}))
                        (+) SetToBag({[t EXCEPT !.pc = "send"]})
          /\ sent' = Append(sent, Message(t))
          /\ UNCHANGED lastReturn
     ELSE /\ tasks' = tasks (-) SetToBag({t})
          /\ lastReturn' = Return(step, t.target, t.key, TRUE)
          /\ UNCHANGED sent
  /\ UNCHANGED <<synced, pinned, fetchCalls, acked, failed, delivered, dropped>>
  /\ UNCHANGED <<inviteVars, composeVars>>

(* ---- Callbacks._reaction, from the answer of room_send on ---- *)
reaction_sent(t, resp) ==
  /\ BagIn(t, tasks)
  /\ t.pc = "send"
  /\ tasks' = tasks (-) SetToBag({t})
  /\ pinned' = pinned \cup {t.target}
  /\ acked' = IF resp = "RoomSendResponse" THEN acked \cup {t.target} ELSE acked
  /\ failed' = IF resp = "RoomSendError" THEN failed \cup {t.target} ELSE failed
  /\ lastReturn' = Return("pinned", t.target, t.key, TRUE)
  /\ UNCHANGED <<synced, sent, fetchCalls, delivered, dropped>>
  /\ UNCHANGED <<inviteVars, composeVars>>

(* ---- Callbacks.invite ---- *)
JoinResponses == {"JoinResponse", "JoinError"}

\* range(3): the number of passes of the retry loop
JoinAttempts == 3

InvTask(room, attempt, pc, joins, pauses, fails) ==
  [room |-> room, attempt |-> attempt, pc |-> pc, joins |-> joins,
   pauses |-> pauses, fails |-> fails]

\* invite(room, event), run up to the await of the first join
invite_Blacklist(room) ==
  /\ invited < MaxInvites
  /\ invited' = invited + 1
  /\ invs' = IF room \in abandoned THEN invs
             ELSE invs (+) SetToBag({InvTask(room, 0, "join", 1, 0, 0)})
  /\ UNCHANGED <<lastInvite, abandoned>>
  /\ UNCHANGED <<reactionVars, composeVars>>

invite(room) ==
  /\ invited < MaxInvites
  /\ invited' = invited + 1
  /\ invs' = invs (+) SetToBag({InvTask(room, 0, "join", 1, 0, 0)})
  /\ UNCHANGED <<lastInvite, abandoned>>
  /\ UNCHANGED <<reactionVars, composeVars>>

\* the test of the join result: pause after an error, leave the loop otherwise
AfterJoin_NoBreak(resp) == "sleep"

AfterJoin(resp) == IF resp = "JoinError" THEN "sleep" ELSE "break"

\* the loop header after the pause: another pass, or the else clause
AfterSleep(attempt) == IF attempt + 1 < JoinAttempts THEN "join" ELSE "else"

JoinFailed(resp) == IF resp = "JoinError" THEN 1 ELSE 0

\* from the answer of join to the await of sleep, or to the return
join_answered(t, resp) ==
  /\ BagIn(t, invs)
  /\ t.pc = "join"
  /\ IF AfterJoin(resp) = "sleep"
     THEN /\ invs' = (invs (-) SetToBag({t}))
                      (+) SetToBag({[t EXCEPT !.pc = "sleep",
                                              !.pauses = t.pauses + 1,
                                              !.fails = t.fails + JoinFailed(resp)]})
          /\ UNCHANGED lastInvite
     ELSE /\ invs' = invs (-) SetToBag({t})
          /\ lastInvite' = InviteDone(t.room, t.joins, t.pauses,
                                      t.fails + JoinFailed(resp),
                                      resp = "JoinResponse", FALSE, TRUE)
  /\ UNCHANGED <<invited, abandoned>>
  /\ UNCHANGED <<reactionVars, composeVars>>

\* from the end of the pause to the await of the next join, or through the
\* else clause of the loop to the return
sleep_done(t) ==
  /\ BagIn(t, invs)
  /\ t.pc = "sleep"
  /\ IF AfterSleep(t.attempt) = "join"
     THEN /\ invs' = (invs (-) SetToBag({t}))
                      (+) SetToBag({[t EXCEPT !.pc = "join",
                                              !.attempt = t.attempt + 1,
                                              !.joins = t.joins + 1]})
          /\ UNCHANGED <<lastInvite, abandoned>>
     ELSE /\ invs' = invs (-) SetToBag({t})
          /\ lastInvite' = InviteDone(t.room, t.joins, t.pauses, t.fails,
                                      FALSE, TRUE, TRUE)
          /\ abandoned' = abandoned \cup {t.room}
  /\ UNCHANGED invited
  /\ UNCHANGED <<reactionVars, composeVars>>

(* ---- Callbacks.decryption_failure ---- *)
\* the reaction to the undecryptable event that the handler does not send
decryption_failure_Reacts(room, e) ==
  /\ sent' = Append(sent, [room_id |-> room, room_slug |-> room,
                           event_slug |-> e, sender |-> UserId])
  /\ UNCHANGED <<synced, pinned, tasks, fetchCalls, acked, failed,
                 delivered, dropped, lastReturn>>
  /\ UNCHANGED <<inviteVars, composeVars>>

\* the handler logs and returns
decryption_failure(room, e) ==
  /\ UNCHANGED reactionVars
  /\ UNCHANGED <<inviteVars, composeVars>>

(* ---- Callbacks._reaction: the composition of the archive record ---- *)
BodyChars == {"a", "<", "\n"}

StringsUpTo(n) == UNION {[1..k -> BodyChars] : k \in 0..n}

Senders == {<<"@", "u">>, <<"@", "<">>}

\* the events room_get_event can answer with: sender, body, formatted_body
OriginalMessages ==
  [sender : Senders,
   body : StringsUpTo(MaxBodyLen),
   has_formatted : BOOLEAN,
   formatted_body : {<<"<b>", "a", "</b>">>}]

\* str.join: the items of the iterable with the separator between them
RECURSIVE PyJoin(_, _)
PyJoin(sep, items) ==
  IF Len(items) = 0 THEN <<>>
  ELSE IF Len(items) = 1 THEN items[1]
  ELSE items[1] \o sep \o PyJoin(sep, Tail(items))

\* reacted_to_event.body.join('\n> '): the body is the separator and the
\* three characters of the literal are the items
FallbackBody(m) == PyJoin(m.body, << <<"\n">>, <<">">>, <<" ">> >>)

PlainBody(m) ==
  <<"\n", ">", " ">> \o <<m.sender[1]>> \o <<" ">> \o FallbackBody(m)
    \o <<"\n", "\n", "Pinned", "\n">>

\* html.escape of one character and of a string
EscapeChar(c) == IF c = "<" THEN "&lt;" ELSE c

Escape(str) == [i \in 1..Len(str) |-> EscapeChar(str[i])]

\* chat_functions.make_pill: the pill of the original sender
make_pill(user_id) ==
  <<"<a href=\"https://matrix.to/#/">> \o Escape(user_id) \o <<"\">">>
    \o Escape(user_id) \o <<"</a>">>

QuoteBody(m) == IF m.has_formatted THEN m.formatted_body ELSE m.body

FormattedBody(room_slug, event_slug, m) ==
  <<"\n<mx-reply>\n  <blockquote>\n    <a href=\"https://matrix.to/#/",
    room_slug, "/", event_slug, "\">Pinned</a>\n    ">>
    \o make_pill(m.sender)
    \o <<"\n    <br />\n    <!-- This is where the related event's HTML would be. -->\n    ">>
    \o QuoteBody(m)
    \o <<"\n  </blockquote>\n</mx-reply>\n">>

InitCompose ==
  /\ InitHandlers
  /\ original \in OriginalMessages
  /\ record = NoRecord

ComposeRecord ==
  /\ ~record.done
  /\ record' = [done |-> TRUE, body |-> PlainBody(original),
                formatted_body |-> FormattedBody("!R3", "$E1", original)]
  /\ UNCHANGED <<reactionVars, inviteVars, streamVars, original>>

SpecCompose == InitCompose /\ [][ComposeRecord]_vars

(* ---- dispatch of the event stream ---- *)
TaskSet == BagToSet(tasks)

InvSet == BagToSet(invs)

\* the host starts a handler while others are suspended (worker-pool dispatch)
DeliverConcurrent ==
  \E room \in Rooms, ev \in RawEvents :
    /\ BagCardinality(tasks) < MaxInFlight
    /\ unknown(room, ev)
    /\ UNCHANGED streamVars

\* the host starts a handler only when the previous one has returned
DeliverSerial ==
  \E room \in Rooms, ev \in RawEvents :
    /\ tasks = EmptyBag
    /\ unknown(room, ev)
    /\ UNCHANGED streamVars

FetchAnswered ==
  \E t \in TaskSet, resp \in FetchResponses :
    reaction_fetched(t, resp) /\ UNCHANGED streamVars

SendAnswered ==
  \E t \in TaskSet, resp \in SendResponses :
    reaction_sent(t, resp) /\ UNCHANGED streamVars

SyncSignal == sync /\ UNCHANGED streamVars

Next == DeliverConcurrent \/ FetchAnswered \/ SendAnswered \/ SyncSignal

Spec == Init /\ [][Next]_vars

NextSerial == DeliverSerial \/ FetchAnswered \/ SendAnswered \/ SyncSignal

SpecSerial == Init /\ [][NextSerial]_vars

(* ---- the invite handler on its own ---- *)
InviteReceived ==
  \E room \in Rooms :
    /\ BagCardinality(invs) < MaxInFlight
    /\ invite(room)
    /\ UNCHANGED streamVars

JoinAnswered ==
  \E t \in InvSet, resp \in JoinResponses :
    join_answered(t, resp) /\ UNCHANGED streamVars

SleepDone == \E t \in InvSet : sleep_done(t) /\ UNCHANGED streamVars

NextInvite == InviteReceived \/ JoinAnswered \/ SleepDone

SpecInvite == Init /\ [][NextInvite]_vars

(* ---- all handlers on one short stream, each input observed ---- *)
StreamUnknown ==
  \E room \in Rooms, ev \in RawEvents :
    /\ stream < MaxStream
    /\ BagCardinality(tasks) < MaxInFlight
    /\ unknown(room, ev)
    /\ stream' = stream + 1
    /\ observed' = Obs("unknown", room, ev, None)

StreamSync ==
  /\ stream < MaxStream
  /\ sync
  /\ stream' = stream + 1
  /\ observed' = Obs("sync", None, NoEvent, None)

StreamInvite ==
  \E room \in Rooms :
    /\ stream < MaxStream
    /\ BagCardinality(invs) < MaxInFlight
    /\ invite(room)
    /\ stream' = stream + 1
    /\ observed' = Obs("invite", room, NoEvent, None)

StreamDecryptionFailure ==
  \E room \in Rooms, e \in Events :
    /\ stream < MaxStream
    /\ decryption_failure(room, e)
    /\ stream' = stream + 1
    /\ observed' = Obs("decryption_failure", room,
                       [NoEvent EXCEPT !.event_id = e], None)

StreamFetchAnswered ==
  \E t \in TaskSet, resp \in FetchResponses :
    /\ reaction_fetched(t, resp)
    /\ observed' = Obs("fetch", t.room, [NoEvent EXCEPT !.event_id = t.target], resp)
    /\ UNCHANGED stream

StreamSendAnswered ==
  \E t \in TaskSet, resp \in SendResponses :
    /\ reaction_sent(t, resp)
    /\ observed' = Obs("send", t.room, [NoEvent EXCEPT !.event_id = t.target], resp)
    /\ UNCHANGED stream

StreamJoinAnswered ==
  \E t \in InvSet, resp \in JoinResponses :
    /\ join_answered(t, resp)
    /\ observed' = Obs("join", t.room, NoEvent, resp)
    /\ UNCHANGED stream

StreamSleepDone ==
  \E t \in InvSet :
    /\ sleep_done(t)
    /\ observed' = Obs("sleep", t.room, NoEvent, None)
    /\ UNCHANGED stream

NextAll ==
  \/ StreamUnknown \/ StreamSync \/ StreamInvite \/ StreamDecryptionFailure
  \/ StreamFetchAnswered \/ StreamSendAnswered
  \/ StreamJoinAnswered \/ StreamSleepDone

SpecAll == Init /\ [][NextAll]_vars

TypeOK ==
  /\ synced \in BOOLEAN
  /\ pinned \subseteq Events
  /\ acked \subseteq Events
  /\ failed \subseteq Events
  /\ delivered \in 0..MaxDeliveries
  /\ dropped \in 0..MaxDeliveries
  /\ fetchCalls \in 0..MaxDeliveries
  /\ Len(sent) <= MaxDeliveries
  /\ \A t \in TaskSet : t.pc \in {"fetch", "send"} /\ t.room \in Rooms /\ t.target \in Events

(* ---- what the claims speak about ---- *)
SendCount(e) == Cardinality({i \in 1..Len(sent) : sent[i].event_slug = e})

SentEvents == {sent[i].event_slug : i \in 1..Len(sent)}

\* a suspended invocation t resumes in this step
Resumes(t) == CopiesIn(t, tasks') < CopiesIn(t, tasks)

\* C1: two pin reactions to the same event whose sends succeed lead to
\* exactly one send to the archive room, whatever the interleaving of the
\* two invocations.
C1_ExactlyOneSend ==
  \A e \in Events :
    (tasks = EmptyBag /\ e \in acked /\ e \notin failed) => SendCount(e) = 1

\* C2: between handler invocations an event id is in the ledger exactly when
\* a send for it has been answered with success.
C2_LedgerIffSent ==
  tasks = EmptyBag => pinned = acked

\* C3: after a failed send for E (and no successful one), a later pin
\* reaction to E is not returned from as a duplicate.
C3_RetryAfterFailedSend ==
  \A e \in Events :
    (e \in failed /\ e \notin acked) =>
      ~(lastReturn.reason = "dup" /\ lastReturn.target = e)

\* C4: a reaction delivered while the sync gate is closed causes no fetch, no
\* send and no ledger change and leaves nothing suspended or queued: while the
\* gate is closed nothing has happened at all, and the fetches ever made are
\* at most the reactions delivered and not dropped.
C4_DroppedBeforeSync ==
  /\ ~synced => (tasks = EmptyBag /\ fetchCalls = 0 /\ sent = <<>> /\ pinned = {})
  /\ fetchCalls + dropped <= delivered
  /\ Len(sent) <= fetchCalls

C4_Witness ==
  /\ synced
  /\ dropped > 0
  /\ lastReturn = Return("presync", "$E1", PinGlyph, FALSE)
  /\ fetchCalls = 0

\* C5 (as stated): a reaction with another emoji than the pin glyph, or with
\* its target already in the ledger, is ignored without room_get_event being
\* called for it.
C5_IgnoredWithoutFetch ==
  /\ \A t \in TaskSet : t.pc = "fetch" => t.key = PinGlyph
  /\ lastReturn.reason \in {"emoji", "dup"} => ~lastReturn.fetched

\* C5 (amended): the sync gate and then the archive room are checked before
\* room_get_event is called; own authorship, then the emoji, then the ledger
\* are checked after it has answered with a decrypted event, the first match
\* ending the invocation; a reaction ignored for its emoji or as a duplicate
\* has had its target fetched and is never sent.
C5_CheckOrder ==
  /\ lastReturn.reason \in {"presync", "pinroom"} => ~lastReturn.fetched
  /\ lastReturn.reason = "pinroom" => synced
  /\ lastReturn.reason \in {"self", "emoji", "dup"} => lastReturn.fetched
  /\ lastReturn.reason = "emoji" =>
       (Author[lastReturn.target] # UserId /\ lastReturn.key # PinGlyph)
  /\ lastReturn.reason = "dup" =>
       /\ Author[lastReturn.target] # UserId
       /\ lastReturn.key = PinGlyph
       /\ lastReturn.target \in pinned
  /\ \A t \in TaskSet : t.pc = "send" => t.key = PinGlyph

C5_Witness ==
  /\ lastReturn.reason = "dup"
  /\ lastReturn.fetched
  /\ fetchCalls >= 2
  /\ Len(sent) = 1

\* C6: a reaction in the archive room is never fetched for, never sent for
\* and never changes the ledger.
C6_NoArchiveRoomPins ==
  /\ \A t \in TaskSet : t.room # PinsRoom
  /\ \A i \in 1..Len(sent) : sent[i].room_slug # PinsRoom
  /\ lastReturn.reason = "pinroom" => ~lastReturn.fetched
  /\ pinned \subseteq SentEvents

C6_Witness ==
  /\ lastReturn = Return("pinroom", "$E1", PinGlyph, FALSE)
  /\ fetchCalls = 0
  /\ pinned = {}

\* C7: a message whose sender is the bot's own user id is never sent to the
\* archive room and its id never enters the ledger.
C7_NoSelfArchive ==
  \A e \in Events :
    Author[e] = UserId =>
      /\ e \notin pinned
      /\ SendCount(e) = 0
      /\ \A t \in TaskSet : t.target = e => t.pc = "fetch"

C7_Witness ==
  /\ lastReturn = Return("self", "$E3", PinGlyph, TRUE)
  /\ sent = <<>>

\* C8: an invocation whose emoji key is not the pin glyph (absent key
\* included) ends without a send and without a ledger change.
C8_OnlyPinGlyph ==
  [][\A t \in BagToSet(tasks) :
       (t.key # PinGlyph /\ Resumes(t)) =>
         /\ sent' = sent
         /\ pinned' = pinned
         /\ BagCardinality(tasks') < BagCardinality(tasks)]_vars

C8_Witness ==
  /\ lastReturn = Return("emoji", "$E1", None, TRUE)
  /\ sent = <<>>
  /\ pinned = {}

\* C9: a qualifying pin reaction to E whose fetch is answered with a
\* decrypted event makes exactly one room_send call, addressed to the archive
\* room, and when that call is answered E is in the ledger.
C9_PinIsArchived ==
  [][\A t \in BagToSet(tasks) :
       /\ ( /\ Resumes(t)
            /\ t.pc = "fetch"
            /\ t.key = PinGlyph
            /\ Author[t.target] # UserId
            /\ t.target \notin pinned )
          => \/ /\ lastReturn'.reason \in {"fetcherr", "megolm"}
                /\ sent' = sent
             \/ /\ sent' = Append(sent, [room_id |-> PinsRoom,
                                         room_slug |-> t.room,
                                         event_slug |-> t.target,
                                         sender |-> Author[t.target]])
                /\ CopiesIn([t EXCEPT !.pc = "send"], tasks') =
                     CopiesIn([t EXCEPT !.pc = "send"], tasks) + 1
       /\ (Resumes(t) /\ t.pc = "send")
          => (sent' = sent /\ t.target \in pinned')]_vars

C9_Witness ==
  /\ tasks = EmptyBag
  /\ lastReturn = Return("pinned", "$E1", PinGlyph, TRUE)
  /\ sent = <<[room_id |-> PinsRoom, room_slug |-> "!R3",
               event_slug |-> "$E1", sender |-> "@U1"]>>
  /\ pinned = {"$E1"}

\* C10: when each handler runs to completion before the next event, an event
\* is sent to the archive room at most once, and later pin reactions to it
\* leave the ledger as it was: the ledger is the set of events sent.
C10_NoSecondSend ==
  /\ \A e \in Events : SendCount(e) <= 1
  /\ tasks = EmptyBag => pinned = SentEvents
  /\ lastReturn.reason = "dup" => SendCount(lastReturn.target) = 1

C10_Witness ==
  /\ lastReturn = Return("dup", "$E1", PinGlyph, TRUE)
  /\ SendCount("$E1") = 1
  /\ pinned = {"$E1"}
  /\ delivered >= 2

\* C11: an invite whose join fails k times and then succeeds (k = 0, 1, 2)
\* has made k+1 join calls and k pauses when it returns; every join call
\* after the first follows a failed one, and no invite makes more than 3.
C11_JoinUntilSuccess ==
  /\ \A t \in InvSet :
       /\ t.joins <= 3
       /\ t.pc = "join" => (t.joins = t.fails + 1 /\ t.pauses = t.fails)
       /\ t.pc = "sleep" => (t.joins = t.fails /\ t.pauses = t.fails)
  /\ lastInvite.joins <= 3
  /\ lastInvite.ok =>
       /\ lastInvite.fails \in 0..2
       /\ lastInvite.joins = lastInvite.fails + 1
       /\ lastInvite.pauses = lastInvite.fails

C11_Witness ==
  /\ lastInvite.ok
  /\ lastInvite.fails = 2
  /\ lastInvite.joins = 3
  /\ lastInvite.pauses = 2
  /\ invs = EmptyBag

\* C12: one invite pauses at most twice; when all 3 attempts fail it has
\* paused exactly twice.
C12_AtMostTwoPauses ==
  /\ \A t \in InvSet : t.pauses <= 2
  /\ lastInvite.pauses <= 2
  /\ lastInvite.unable => lastInvite.pauses = 2

\* C13: an invite whose 3 attempts all fail returns after exactly 3 join
\* calls, and every invite delivered later, to the same room too, starts a
\* new invocation at its first attempt.
C13_AbandonedThenFresh ==
  /\ [](lastInvite.unable =>
          /\ lastInvite.joins = 3
          /\ lastInvite.fails = 3
          /\ ~lastInvite.ok
          /\ lastInvite.room \in abandoned)
  /\ [][invited' = invited + 1 =>
          \E room \in Rooms :
            invs' = invs (+) SetToBag({[room |-> room, attempt |-> 0,
                                        pc |-> "join", joins |-> 1,
                                        pauses |-> 0, fails |-> 0]})]_vars

C13_Witness ==
  /\ lastInvite.unable
  /\ lastInvite.room = "!R3"
  /\ abandoned = {"!R3"}
  /\ invited = 2
  /\ invs = SetToBag({[room |-> "!R3", attempt |-> 0, pc |-> "join",
                       joins |-> 1, pauses |-> 0, fails |-> 0]})

\* C14: when room_get_event answers with an error or with an event that is
\* still encrypted, the invocation returns: no send, no further fetch, ledger
\* and sync gate unchanged.
C14_FetchFailureDrops ==
  [][( /\ observed'.kind = "fetch"
       /\ observed'.resp \in {"RoomGetEventError", "MegolmEvent"}
       /\ tasks' # tasks )
     => /\ sent' = sent
        /\ pinned' = pinned
        /\ synced' = synced
        /\ fetchCalls' = fetchCalls
        /\ BagCardinality(tasks') = BagCardinality(tasks) - 1
        /\ \A t \in BagToSet(tasks') : CopiesIn(t, tasks') <= CopiesIn(t, tasks)
        /\ lastReturn'.reason =
             (IF observed'.resp = "MegolmEvent" THEN "megolm" ELSE "fetcherr")]_vars

C14_Witness ==
  /\ observed.kind = "fetch"
  /\ observed.resp = "MegolmEvent"
  /\ lastReturn = Return("megolm", "$E1", PinGlyph, TRUE)
  /\ fetchCalls = 1
  /\ sent = <<>>
  /\ pinned = {}

\* C15: the sync gate is false at the start, true after every sync signal,
\* never goes back to false, and changes only in a sync step.
C15_SyncGateOneShot ==
  /\ ~synced
  /\ [][/\ synced => synced'
        /\ (stream' # stream /\ observed'.kind = "sync") => synced'
        /\ synced' # synced => (stream' # stream /\ observed'.kind = "sync")]_vars

C15_Witness ==
  /\ synced
  /\ stream = 3
  /\ observed.kind = "send"
  /\ pinned # {}

\* C16: unknown() hands an event to _reaction only if its type is m.reaction,
\* its relation has an event id and its rel_type is m.annotation; any other
\* event changes nothing but the count of delivered events and the return
\* taken.
C16_ClassifierDrops ==
  [][(stream' # stream /\ observed'.kind = "unknown") =>
       LET ev == observed'.ev
           qualifies == /\ ev.type = "m.reaction"
                        /\ ev.event_id \in Events
                        /\ ev.rel_type = "m.annotation"
           handed == \/ tasks' # tasks
                     \/ lastReturn'.reason \in {"presync", "pinroom"}
       IN /\ handed => qualifies
          /\ ~qualifies =>
               /\ lastReturn'.reason = "unknown"
               /\ UNCHANGED <<synced, pinned, tasks, sent, fetchCalls, acked,
                              failed, dropped>>
               /\ UNCHANGED inviteVars]_vars

C16_Witness ==
  /\ observed.kind = "unknown"
  /\ observed.ev = [type |-> "m.reaction", event_id |-> "$E1",
                    rel_type |-> "m.replace", key |-> PinGlyph]
  /\ observed.room = "!R3"
  /\ synced
  /\ lastReturn.reason = "unknown"
  /\ fetchCalls = 0

\* the lines of a string
RECURSIVE SplitLines(_)
SplitLines(str) ==
  IF \A i \in 1..Len(str) : str[i] # "\n" THEN <<str>>
  ELSE LET k == CHOOSE i \in 1..Len(str) :
                  str[i] = "\n" /\ \A j \in 1..(i - 1) : str[j] # "\n"
       IN <<SubSeq(str, 1, k - 1)>> \o SplitLines(SubSeq(str, k + 1, Len(str)))

IsQuoted(line) == Len(line) >= 2 /\ line[1] = ">" /\ line[2] = " "

EndsWith(line, suffix) ==
  /\ Len(suffix) <= Len(line)
  /\ SubSeq(line, Len(line) - Len(suffix) + 1, Len(line)) = suffix

\* C17: every line of the original body is in the plain-text record on a
\* line that starts with the quote marker, and the number of lines of the
\* record that start with the quote marker is the number of original lines.
C17_EveryLineQuoted ==
  (record.done /\ original.body # <<>>) =>
    LET lines == SplitLines(original.body)
        out == SplitLines(record.body)
    IN /\ \A i \in 1..Len(lines) :
            \E j \in 1..Len(out) : IsQuoted(out[j]) /\ EndsWith(out[j], lines[i])
       /\ Cardinality({j \in 1..Len(out) : IsQuoted(out[j])}) = Len(lines)

\* C18: no markup character of the sender identifier or of the plain body
\* (when there is no rich body) is in the formatted_body of the record
\* unescaped.
C18_UserContentEscaped ==
  (record.done /\ ~original.has_formatted) =>
    \A i \in 1..Len(record.formatted_body) : record.formatted_body[i] # "<"

\* C19: handling a decryption failure changes neither the sync gate nor the
\* ledger and makes no join, fetch or send.
C19_DecryptionFailureObserves ==
  [][(stream' # stream /\ observed'.kind = "decryption_failure") =>
       (UNCHANGED reactionVars /\ UNCHANGED inviteVars)]_vars

C19_Witness ==
  /\ observed.kind = "decryption_failure"
  /\ synced
  /\ tasks # EmptyBag

\* C20: the invite handler reports the room as joined only if one of its
\* join calls succeeded, and not when it reports that it was unable to join.
C20_JoinedOnlyOnSuccess ==
  lastInvite.joined => (lastInvite.ok /\ ~lastInvite.unable)
====
